---- MODULE Spec2Model ----
(***************************************************************************)
(* Model of libs/radio/radio.ts: the TypeScript layer of the micro:bit     *)
(* radio package.  The five registration functions install a closure with  *)
(* the native hook onDataReceived; the closure takes a packet from the     *)
(* radio queue, copies the native accessors into a Packet record, stores   *)
(* the record in lastPacket and calls the user callback.                   *)
(* getReceivedPacketProperty reads lastPacket.                             *)
(*                                                                         *)
(* A closure body is modelled as the sequence of its statements, executed  *)
(* in order by RunBody up to the user callback; the callback is a state    *)
(* (running # "none") in which user code may act, and CallbackReturn       *)
(* resumes the statements that follow the callback (none in radio.ts).     *)
(* The native layer (queue, current packet, event delivery) is not part of *)
(* radio.ts and is modelled from the specification text.                   *)
(***************************************************************************)
EXTENDS Integers, Sequences, FiniteSets, TLC

VARIABLES
    handler,     \* the closure registered with onDataReceived (<<>>: none)
    queue,       \* native: the radio queue of packets not yet taken
    cur,         \* native: the packet the accessors report
    events,      \* native: data events raised and not yet delivered
    lastPacket,  \* radio.ts:145  let lastPacket: Packet
    packet,      \* the local `packet` of the closure invocation in progress
    aliased,     \* lastPacket and the local `packet` are the same object
    running,     \* which user callback is executing ("none": no closure runs)
    args,        \* the arguments the executing callback was called with
    cont,        \* statements of the closure that follow the callback
    query        \* what getReceivedPacketProperty returned, by type, since the last data event

vars == <<handler, queue, cur, events, lastPacket, packet, aliased, running,
          args, cont, query>>

----------------------------------------------------------------------------
(* Bounds                                                                  *)

MaxQueue == 1

MaxEvents == 1

MaxStamp == 2

----------------------------------------------------------------------------
(* Values                                                                  *)

\* the value of a variable or field that was never assigned
Undefined == [undefined |-> TRUE]

\* new Packet(): an object none of whose declared fields has been assigned
NewPacket == [f \in {} |-> 0]

PacketFields ==
    {"receivedNumber", "receivedString", "receivedBuffer", "time", "serial", "signal"}

EmptyString == <<>>

EmptyBuffer == <<>>

Time == 0

SerialNumber == 1

SignalStrength == 2

\* arguments tried for getReceivedPacketProperty(type: number)
QueryTypes == {Time, SerialNumber, SignalStrength, SignalStrength + 1}

----------------------------------------------------------------------------
(* Native layer (modelled from the specification)                          *)

PacketTypes == {"number", "value", "string", "buffer"}

CarriesNumber(tp) == tp \in {"number", "value"}

CarriesString(tp) == tp \in {"string", "value"}

CarriesBuffer(tp) == tp = "buffer"

\* a packet as the native layer decodes it: the payload slots the sender did
\* not fill hold their zero-equivalents
NativePacket(tp, s) ==
    [type   |-> tp,
     time   |-> 100 * s,
     serial |-> 7000 + s,
     signal |-> 0 - (40 + s),
     number |-> IF CarriesNumber(tp) THEN s ELSE 0,
     string |-> IF CarriesString(tp) THEN <<96 + s>> ELSE EmptyString,
     buffer |-> IF CarriesBuffer(tp) THEN <<s, s>> ELSE EmptyBuffer]

Packets == {NativePacket(tp, s) : tp \in PacketTypes, s \in 1..MaxStamp}

\* what the accessors report when nothing was taken from the queue
EmptyPacket ==
    [type |-> "none", time |-> 0, serial |-> 0, signal |-> 0,
     number |-> 0, string |-> EmptyString, buffer |-> EmptyBuffer]

\* receiveNumber(): takes the next packet from the radio queue and makes it
\* the packet the accessors report
receiveNumber(q, c) ==
    IF q = <<>> THEN [queue |-> q, cur |-> EmptyPacket]
                ELSE [queue |-> Tail(q), cur |-> Head(q)]

receivedNumber(c) == c.number

receivedTime(c) == c.time

receivedSerial(c) == c.serial

receivedString(c) == c.string

receivedBuffer(c) == c.buffer

receivedSignalStrength(c) == c.signal

----------------------------------------------------------------------------
(* The closures of radio.ts, statement by statement                        *)

\* variant: the number is read before the packet is taken from the queue
onDataPacketReceivedBody_staleNumber ==
    <<"new", "set_receivedNumber", "receiveNumber", "set_time", "set_serial",
      "set_receivedString", "set_receivedBuffer", "set_signal",
      "assign_lastPacket", "cb_packet">>

onDataPacketReceivedBody ==
    <<"receiveNumber", "new", "set_receivedNumber", "set_time", "set_serial",
      "set_receivedString", "set_receivedBuffer", "set_signal",
      "assign_lastPacket", "cb_packet">>

\* variant: the record is never stored in lastPacket
onReceivedNumberBody_noAssign ==
    <<"receiveNumber", "new", "set_time", "set_serial", "set_signal",
      "set_receivedNumber", "cb_number">>

onReceivedNumberBody ==
    <<"receiveNumber", "new", "set_time", "set_serial", "set_signal",
      "set_receivedNumber", "assign_lastPacket", "cb_number">>

\* variant: the callback is invoked before the record is stored
onReceivedValueBody_callFirst ==
    <<"receiveNumber", "new", "set_time", "set_serial", "set_signal",
      "set_receivedNumber", "set_receivedString", "cb_value", "assign_lastPacket">>

onReceivedValueBody ==
    <<"receiveNumber", "new", "set_time", "set_serial", "set_signal",
      "set_receivedNumber", "set_receivedString", "assign_lastPacket", "cb_value">>

onReceivedStringBody ==
    <<"receiveNumber", "new", "set_time", "set_serial", "set_signal",
      "set_receivedString", "assign_lastPacket", "cb_string">>

\* variant: the signal strength is not copied
onReceivedBufferBody_noSignal ==
    <<"receiveNumber", "new", "set_time", "set_serial",
      "set_receivedBuffer", "assign_lastPacket", "cb_buffer">>

onReceivedBufferBody ==
    <<"receiveNumber", "new", "set_time", "set_serial", "set_signal",
      "set_receivedBuffer", "assign_lastPacket", "cb_buffer">>

Bodies ==
    {onDataPacketReceivedBody, onReceivedNumberBody, onReceivedValueBody,
     onReceivedStringBody, onReceivedBufferBody}

CallbackStmts == {"cb_packet", "cb_number", "cb_value", "cb_string", "cb_buffer"}

\* reading a field of an object: undefined when it was never assigned
Read(p, f) == IF f \in DOMAIN p THEN p[f] ELSE Undefined

\* packet.f = v; lastPacket sees the write when it refers to the same object
SetField(m, f, v) ==
    LET p == [g \in (DOMAIN m.packet) \cup {f} |->
                 IF g = f THEN v ELSE m.packet[g]]
    IN [m EXCEPT !.packet = p,
                 !.lastPacket = IF m.aliased THEN p ELSE m.lastPacket]

\* one statement of a closure, other than the callback invocation
ExecStmt(s, m) ==
    CASE s = "receiveNumber" ->
           LET r == receiveNumber(m.queue, m.cur)
           IN [m EXCEPT !.queue = r.queue, !.cur = r.cur]
      [] s = "new" -> [m EXCEPT !.packet = NewPacket, !.aliased = FALSE]
      [] s = "set_receivedNumber" -> SetField(m, "receivedNumber", receivedNumber(m.cur))
      [] s = "set_time" -> SetField(m, "time", receivedTime(m.cur))
      [] s = "set_serial" -> SetField(m, "serial", receivedSerial(m.cur))
      [] s = "set_receivedString" -> SetField(m, "receivedString", receivedString(m.cur))
      [] s = "set_receivedBuffer" -> SetField(m, "receivedBuffer", receivedBuffer(m.cur))
      [] s = "set_signal" -> SetField(m, "signal", receivedSignalStrength(m.cur))
      [] s = "assign_lastPacket" -> [m EXCEPT !.lastPacket = m.packet, !.aliased = TRUE]

\* variant: the number callback is passed another field of the record
CallArgs_wrongField(s, p) ==
    CASE s = "cb_packet" -> <<p>>
      [] s = "cb_number" -> <<Read(p, "serial")>>
      [] s = "cb_value" -> <<Read(p, "receivedString"), Read(p, "receivedNumber")>>
      [] s = "cb_string" -> <<Read(p, "receivedString")>>
      [] s = "cb_buffer" -> <<Read(p, "receivedBuffer")>>

\* the arguments a callback invocation passes
CallArgs(s, p) ==
    CASE s = "cb_packet" -> <<p>>
      [] s = "cb_number" -> <<Read(p, "receivedNumber")>>
      [] s = "cb_value" -> <<Read(p, "receivedString"), Read(p, "receivedNumber")>>
      [] s = "cb_string" -> <<Read(p, "receivedString")>>
      [] s = "cb_buffer" -> <<Read(p, "receivedBuffer")>>

CallKind(s) ==
    CASE s = "cb_packet" -> "packet"
      [] s = "cb_number" -> "number"
      [] s = "cb_value" -> "value"
      [] s = "cb_string" -> "string"
      [] s = "cb_buffer" -> "buffer"

\* runs the statements up to and including the next callback invocation, or
\* to the end of the closure
RECURSIVE RunBody(_, _)
RunBody(stmts, m) ==
    IF stmts = <<>>
    THEN [m EXCEPT !.running = "none", !.args = <<>>, !.cont = <<>>,
                   !.packet = Undefined, !.aliased = FALSE]
    ELSE IF Head(stmts) \in CallbackStmts
         THEN [m EXCEPT !.running = CallKind(Head(stmts)),
                        !.args = CallArgs(Head(stmts), m.packet),
                        !.cont = Tail(stmts)]
         ELSE RunBody(Tail(stmts), ExecStmt(Head(stmts), m))

Machine ==
    [queue |-> queue, cur |-> cur, lastPacket |-> lastPacket, packet |-> packet,
     aliased |-> aliased, running |-> running, args |-> args, cont |-> cont]

Becomes(m) ==
    /\ queue' = m.queue
    /\ cur' = m.cur
    /\ lastPacket' = m.lastPacket
    /\ packet' = m.packet
    /\ aliased' = m.aliased
    /\ running' = m.running
    /\ args' = m.args
    /\ cont' = m.cont

----------------------------------------------------------------------------
(* getReceivedPacketProperty                                               *)

\* a call's outcome: a returned value, or a raised error
Return(v) == [threw |-> FALSE, value |-> v]

Throw == [threw |-> TRUE]

\* no call has been made since the last data event
NoQuery == <<>>

\* variant: no presence check, so a field of undefined is read
getReceivedPacketProperty_noCheck(type, lp) ==
    CASE type = Time -> IF lp = Undefined THEN Throw ELSE Return(Read(lp, "time"))
      [] type = SerialNumber -> IF lp = Undefined THEN Throw ELSE Return(Read(lp, "serial"))
      [] type = SignalStrength -> IF lp = Undefined THEN Throw ELSE Return(Read(lp, "signal"))
      [] OTHER -> Return(0)

getReceivedPacketProperty(type, lp) ==
    IF lp # Undefined
    THEN CASE type = Time -> Return(Read(lp, "time"))
           [] type = SerialNumber -> Return(Read(lp, "serial"))
           [] type = SignalStrength -> Return(Read(lp, "signal"))
           [] OTHER -> Return(0)
    ELSE Return(0)

\* variant: the properties are read from the native accessors
GetReceivedPacketProperty_live ==
    /\ query' = [type \in QueryTypes |->
                    CASE type = Time -> Return(receivedTime(cur))
                      [] type = SerialNumber -> Return(receivedSerial(cur))
                      [] type = SignalStrength -> Return(receivedSignalStrength(cur))
                      [] OTHER -> Return(0)]
    /\ UNCHANGED <<handler, queue, cur, events, lastPacket, packet, aliased,
                   running, args, cont>>

\* user code reads the packet properties: it calls getReceivedPacketProperty
\* with each type and keeps what the calls returned
GetReceivedPacketProperty ==
    /\ query' = [type \in QueryTypes |-> getReceivedPacketProperty(type, lastPacket)]
    /\ UNCHANGED <<handler, queue, cur, events, lastPacket, packet, aliased,
                   running, args, cont>>

----------------------------------------------------------------------------
(* Registration                                                            *)

\* native onDataReceived(body): installs body as the handler of data events.
\* The program registers from its top level, not from inside a radio callback.
onDataReceived(body) ==
    /\ running = "none"
    /\ handler' = body
    /\ UNCHANGED <<queue, cur, events, lastPacket, packet, aliased, running,
                   args, cont, query>>

onDataPacketReceived == onDataReceived(onDataPacketReceivedBody)

onReceivedNumber == onDataReceived(onReceivedNumberBody)

onReceivedValue == onDataReceived(onReceivedValueBody)

\* variant: the closure is run at registration
onReceivedString_eager ==
    /\ running = "none"
    /\ handler' = onReceivedStringBody
    /\ Becomes(RunBody(onReceivedStringBody, Machine))
    /\ UNCHANGED <<events, query>>

onReceivedString == onDataReceived(onReceivedStringBody)

onReceivedBuffer == onDataReceived(onReceivedBufferBody)

----------------------------------------------------------------------------
(* Native runtime                                                          *)

\* the radio receives a packet: it is queued and a data event is raised for
\* the registered handler; a full queue drops the packet
Arrive ==
    /\ Len(queue) < MaxQueue
    /\ \E p \in Packets : queue' = Append(queue, p)
    /\ events' = IF handler # <<>> /\ events < MaxEvents THEN events + 1 ELSE events
    /\ UNCHANGED <<handler, cur, lastPacket, packet, aliased, running, args,
                   cont, query>>

\* the runtime delivers a data event: the registered closure runs up to its
\* callback invocation; invocations do not overlap
DataEvent ==
    /\ events > 0
    /\ handler # <<>>
    /\ running = "none"
    /\ events' = events - 1
    /\ query' = NoQuery
    /\ Becomes(RunBody(handler, Machine))
    /\ UNCHANGED handler

\* the user callback returns and the closure runs on to its end
CallbackReturn ==
    /\ running # "none"
    /\ Becomes(RunBody(cont, Machine))
    /\ UNCHANGED <<handler, events, query>>

\* user code calls the native receiveNumber() itself
UserReceiveNumber ==
    /\ LET r == receiveNumber(queue, cur)
       IN queue' = r.queue /\ cur' = r.cur
    /\ UNCHANGED <<handler, events, lastPacket, packet, aliased, running, args,
                   cont, query>>

----------------------------------------------------------------------------

Init ==
    /\ handler = <<>>
    /\ queue = <<>>
    /\ cur = EmptyPacket
    /\ events = 0
    /\ lastPacket = Undefined
    /\ packet = Undefined
    /\ aliased = FALSE
    /\ running = "none"
    /\ args = <<>>
    /\ cont = <<>>
    /\ query = NoQuery

Next ==
    \/ onDataPacketReceived
    \/ onReceivedNumber
    \/ onReceivedValue
    \/ onReceivedString
    \/ onReceivedBuffer
    \/ Arrive
    \/ DataEvent
    \/ CallbackReturn
    \/ UserReceiveNumber
    \/ GetReceivedPacketProperty

Spec == Init /\ [][Next]_vars

----------------------------------------------------------------------------
(* Properties                                                              *)

\* the step is the delivery of a data event to the registered closure
IsDataEvent == events' < events

\* the native accessor a Packet field is copied from
NativeField(c, f) ==
    CASE f = "receivedNumber" -> receivedNumber(c)
      [] f = "receivedString" -> receivedString(c)
      [] f = "receivedBuffer" -> receivedBuffer(c)
      [] f = "time" -> receivedTime(c)
      [] f = "serial" -> receivedSerial(c)
      [] f = "signal" -> receivedSignalStrength(c)

\* the callback a registered closure belongs to
KindOf(body) ==
    CASE body = onDataPacketReceivedBody -> "packet"
      [] body = onReceivedNumberBody -> "number"
      [] body = onReceivedValueBody -> "value"
      [] body = onReceivedStringBody -> "string"
      [] body = onReceivedBufferBody -> "buffer"
      [] OTHER -> "none"

\* the received packet carries the payload the callback is registered for
Carries(kind, tp) ==
    CASE kind = "number" -> CarriesNumber(tp)
      [] kind = "string" -> CarriesString(tp)
      [] kind = "value" -> CarriesNumber(tp) /\ CarriesString(tp)
      [] kind = "buffer" -> CarriesBuffer(tp)
      [] OTHER -> TRUE

\* C1: after every data event lastPacket holds the record of the packet just
\* handled: getReceivedPacketProperty(Time), (SerialNumber), (SignalStrength)
\* return what the native accessors report for it; no other step changes
\* lastPacket, so the properties are never those of an earlier packet.
C1_LastPacketIsLatest ==
    [][/\ IsDataEvent =>
            /\ getReceivedPacketProperty(Time, lastPacket') = Return(receivedTime(cur'))
            /\ getReceivedPacketProperty(SerialNumber, lastPacket')
                 = Return(receivedSerial(cur'))
            /\ getReceivedPacketProperty(SignalStrength, lastPacket')
                 = Return(receivedSignalStrength(cur'))
       /\ ~IsDataEvent => lastPacket' = lastPacket]_vars

C1_Witness ==
    /\ running = "number"
    /\ cur.type = "string"
    /\ lastPacket # Undefined
    /\ getReceivedPacketProperty(Time, lastPacket) = Return(100 * MaxStamp)
    /\ Len(queue) > 0
    /\ Head(queue).time # receivedTime(cur)

\* C2: while lastPacket has never been assigned, getReceivedPacketProperty
\* returns 0 for every type, raising no error, and so did every call made.
C2_ZeroBeforeFirstPacket ==
    lastPacket = Undefined =>
        /\ \A type \in QueryTypes \cup {0 - 1} :
              getReceivedPacketProperty(type, lastPacket) = Return(0)
        /\ query # NoQuery => \A type \in QueryTypes : query[type] = Return(0)

C2_Witness ==
    /\ lastPacket = Undefined
    /\ query # NoQuery
    /\ query[SerialNumber] = Return(0)
    /\ Len(queue) > 0

\* C3: the record a data event stores in lastPacket has all six fields, and
\* each payload field the received packet did not carry holds its
\* zero-equivalent (0, the empty string, the empty buffer).
C3_AllFieldsZeroEquivalent ==
    [][IsDataEvent /\ queue # <<>> =>
          /\ lastPacket' # Undefined
          /\ DOMAIN lastPacket' = PacketFields
          /\ ~CarriesNumber(Head(queue).type) => lastPacket'.receivedNumber = 0
          /\ ~CarriesString(Head(queue).type) => lastPacket'.receivedString = EmptyString
          /\ ~CarriesBuffer(Head(queue).type) => lastPacket'.receivedBuffer = EmptyBuffer]_vars

\* C4: while a user callback runs, lastPacket already is the fully populated
\* record of the packet being handled and nothing of the closure remains to
\* be executed; a getReceivedPacketProperty call made from inside the
\* callback returned the properties of that packet.
C4_StoredBeforeCallback ==
    running # "none" =>
        /\ packet # Undefined
        /\ lastPacket = packet
        /\ cont = <<>>
        /\ {"time", "serial", "signal"} \subseteq DOMAIN packet
        /\ query # NoQuery =>
              /\ query[Time] = Return(packet.time)
              /\ query[SerialNumber] = Return(packet.serial)
              /\ query[SignalStrength] = Return(packet.signal)

C4_Witness ==
    /\ running = "value"
    /\ query # NoQuery
    /\ query[Time] = Return(packet.time)
    /\ packet.time # receivedTime(cur)

\* C5: a closure invocation takes exactly one packet from the radio queue,
\* and every field of the record it builds is the native value of that packet.
C5_OneDequeueBeforeReads ==
    [][IsDataEvent /\ queue # <<>> =>
          /\ queue' = Tail(queue)
          /\ cur' = Head(queue)
          /\ packet' # Undefined
          /\ \A f \in DOMAIN packet' : packet'[f] = NativeField(Head(queue), f)]_vars

C5_Witness ==
    /\ running = "packet"
    /\ cur.type = "value"
    /\ packet.receivedNumber = receivedNumber(cur)
    /\ packet.receivedString = receivedString(cur)
    /\ packet.time = receivedTime(cur)
    /\ Len(queue) > 0
    /\ Head(queue) # cur

\* C6: a typed callback is run only for a received packet that carries its
\* payload type.
C6_CallbackOnlyForItsType ==
    [][IsDataEvent /\ queue # <<>> /\ running' # "none" =>
          Carries(running', Head(queue).type)]_vars

\* C7: a data event invokes the callback of the registered closure once, with
\* the native values: the number; the string; the buffer; (name, value); or a
\* Packet of the six native values.  The arguments equal the fields of the
\* record stored in lastPacket, and no other step invokes a callback.
C7_ForwardsNativeValues ==
    [][/\ IsDataEvent =>
            /\ running' = KindOf(handler)
            /\ running' # "none"
            /\ \A i \in 1..Len(cont') : cont'[i] \notin CallbackStmts
            /\ lastPacket' # Undefined
            /\ running' = "number" =>
                  /\ args' = <<receivedNumber(cur')>>
                  /\ args' = <<lastPacket'.receivedNumber>>
            /\ running' = "string" =>
                  /\ args' = <<receivedString(cur')>>
                  /\ args' = <<lastPacket'.receivedString>>
            /\ running' = "buffer" =>
                  /\ args' = <<receivedBuffer(cur')>>
                  /\ args' = <<lastPacket'.receivedBuffer>>
            /\ running' = "value" =>
                  /\ args' = <<receivedString(cur'), receivedNumber(cur')>>
                  /\ args' = <<lastPacket'.receivedString, lastPacket'.receivedNumber>>
            /\ running' = "packet" =>
                  /\ args' = <<[f \in PacketFields |-> NativeField(cur', f)]>>
                  /\ args' = <<lastPacket'>>
       /\ ~IsDataEvent => running' \in {running, "none"}]_vars

C7_Witness ==
    /\ running = "value"
    /\ cur.type = "value"
    /\ args = <<receivedString(cur), receivedNumber(cur)>>
    /\ args[2] = MaxStamp

C9_QueryIsPure ==
    /\ [](query # NoQuery =>
            \A type \in QueryTypes :
               query[type] = getReceivedPacketProperty(type, lastPacket))
    /\ [][query' # query /\ query' # NoQuery =>
            UNCHANGED <<handler, queue, cur, events, lastPacket, packet, aliased,
                        running, args, cont>>]_vars

C9_Witness ==
    /\ query # NoQuery
    /\ lastPacket # Undefined
    /\ running = "none"
    /\ query[Time] # Return(receivedTime(cur))
    /\ query[Time] # Return(0)

\* C10: once a packet has been received, a type that is none of Time,
\* SerialNumber, SignalStrength yields 0, and whichever function registered
\* the closure the record has time, serial and signal, which the three valid
\* types return.
C10_InvalidTypeAndAnyHandler ==
    lastPacket # Undefined =>
        /\ \A type \in {0 - 1, SignalStrength + 1, SignalStrength + 2} :
              getReceivedPacketProperty(type, lastPacket) = Return(0)
        /\ {"time", "serial", "signal"} \subseteq DOMAIN lastPacket
        /\ lastPacket.time \in Int /\ lastPacket.serial \in Int /\ lastPacket.signal \in Int
        /\ getReceivedPacketProperty(Time, lastPacket) = Return(lastPacket.time)
        /\ getReceivedPacketProperty(SerialNumber, lastPacket) = Return(lastPacket.serial)
        /\ getReceivedPacketProperty(SignalStrength, lastPacket) = Return(lastPacket.signal)

C10_Witness ==
    /\ running = "buffer"
    /\ lastPacket # Undefined
    /\ query # NoQuery
    /\ query[SignalStrength + 1] = Return(0)
    /\ query[SignalStrength] = Return(0 - (40 + MaxStamp))

====
